---- MODULE Spec2Model ----
(***************************************************************************)
(* MasterAgent (src/master_agent.py): the sub-agent registry, the          *)
(* configuration loader, the persistence handle and the supervision loop   *)
(* of MasterAgent.start(), as a state machine.                             *)
(*                                                                         *)
(* The coroutine start() is followed by a program counter pc.  Other code  *)
(* of the process (register_sub_agent calls of other tasks, a task         *)
(* cancellation) runs only while start() is suspended at an await; a       *)
(* signal handler runs between any two steps.                              *)
(***************************************************************************)
EXTENDS Integers, Sequences, FiniteSets, TLC

\* ------------------------------------------------------------------ bounds
\* number of distinct valid agent identifiers the callers use
MaxIds == 2
\* number of supervision cycles a run is followed for
MaxCycles == 2

\* --------------------------------------------------------- program values
\* AgentStatus (lines 42-49)
AgentStatus == {"INITIALIZING", "READY", "RUNNING", "PAUSED", "ERROR", "TERMINATED"}

\* the backoff pause of line 200, in seconds
BACKOFF_SECONDS == 5
\* the fallback of config.get("polling_interval", 60) at line 192
POLLING_FALLBACK == 60
\* success_rate is a fraction; it is kept in hundredths (1.0 is 100)
RATE_ONE == 100

\* Python values that reach the model are tagged with their type:
\* ty is "int", "float" (v in hundredths), "str" (v names the string, 0 is ""),
\* "list" (v names the list) or "none".
PyInt(n) == [ty |-> "int", v |-> n]
PyFloat(h) == [ty |-> "float", v |-> h]
PyStr(n) == [ty |-> "str", v |-> n]
PyList(n) == [ty |-> "list", v |-> n]
PyNone == [ty |-> "none", v |-> 0]

\* truthiness of a Python value (the `not agent_id` of line 150, the
\* `if config_path` of line 127)
Truthy(x) == x.ty # "none" /\ x.v # 0

\* ------------------------------------------------------------ sub-agents
\* An agent reference is an opaque object; what the master can observe of it
\* is which operations it exposes and whether a call of one raises:
\* "none" (not exposed), "ok" (returns) or "raise" (raises an Exception).
Capability == {"none", "ok", "raise"}

Instances ==
    { [start |-> "ok",    monitor |-> "ok",   update |-> "ok"],
      [start |-> "none",  monitor |-> "none", update |-> "none"],
      [start |-> "raise", monitor |-> "ok",   update |-> "ok"],
      [start |-> "ok",    monitor |-> "ok",   update |-> "raise"] }

\* identifiers passed to register_sub_agent: non-empty strings, the empty
\* string, and values that are not strings (None, 0, 7)
ValidIds == {PyStr(n) : n \in 1..MaxIds}
InvalidIds == {PyStr(0), PyNone, PyInt(0), PyInt(7)}
IdInputs == ValidIds \cup InvalidIds

\* --------------------------------------------------------- configuration
RecognizedKeys == {"polling_interval", "max_concurrent_strategies",
                   "risk_tolerance", "markets", "logging_level"}
\* a configuration document may also hold keys the core does not know
DocKeys == RecognizedKeys \cup {"extra"}

\* default_config (lines 118-124); the list 1 is [crypto], the string 1 is "INFO"
default_config ==
    [polling_interval          |-> PyInt(60),
     max_concurrent_strategies |-> PyInt(10),
     risk_tolerance            |-> PyFloat(2),
     markets                   |-> PyList(1),
     logging_level             |-> PyStr(1)]

\* a merge in which the defaults win over the loaded values
dict_update_DefaultsWin(d, loaded) ==
    [k \in (DOMAIN d) \cup (DOMAIN loaded) |->
        IF k \in DOMAIN d THEN d[k] ELSE loaded[k]]

\* dict.update (line 137): the keys of both, the loaded value where present
dict_update(d, loaded) ==
    [k \in (DOMAIN d) \cup (DOMAIN loaded) |->
        IF k \in DOMAIN loaded THEN loaded[k] ELSE d[k]]

\* The values a document is given for each key: a JSON document is not
\* validated, so a key may hold a value of any type or range.
KeyOptions ==
    [polling_interval          |-> <<PyInt(3), PyInt(0), PyInt(-1), PyStr(2), PyNone>>,
     max_concurrent_strategies |-> <<PyInt(4), PyInt(0)>>,
     risk_tolerance            |-> <<PyFloat(5), PyFloat(250)>>,
     markets                   |-> <<PyList(2), PyList(0)>>,
     logging_level             |-> <<PyStr(3), PyStr(0)>>,
     extra                     |-> <<PyInt(1)>>]

DocChoices ==
    {c \in [DocKeys -> 0..5] : \A k \in DocKeys : c[k] <= Len(KeyOptions[k])}

DocOf(c) == [k \in {x \in DocKeys : c[x] # 0} |-> KeyOptions[k][c[k]]]

EmptyDoc == [k \in {} |-> PyNone]

\* What _load_config is given: the path argument and what is found there.
\*   "none"        config_path is None
\*   "empty"       config_path is ""
\*   "missing"     open() raises FileNotFoundError
\*   "unreadable"  open() or read raises another error (a directory, no permission)
\*   "badjson"     json.load raises JSONDecodeError
\*   "nondict"     the document is valid JSON but no mapping (a list, a number)
\*   "dict"        the document is a mapping, doc
PathKinds == {"none", "empty", "missing", "unreadable", "badjson", "nondict"}

\* a JSON list of pairs is no mapping, though dict.update would accept it
PairList == [polling_interval |-> PyInt(3)]

ConfigSources ==
    {[path |-> p, doc |-> EmptyDoc] : p \in PathKinds}
        \cup {[path |-> "nondict", doc |-> PairList]}
        \cup {[path |-> "dict", doc |-> DocOf(c)] : c \in DocChoices}

\* `if config_path` (line 127)
PathGiven(src) == src.path \notin {"none", "empty"}

\* What the try block of lines 128-138 does with the document: "merged", or
\* the exception handler that ends it (lines 139-144).
LoadOutcome(src) ==
    CASE src.path = "missing"    -> "FileNotFoundError"
      [] src.path = "unreadable" -> "Exception"
      [] src.path = "badjson"    -> "JSONDecodeError"
      [] src.path = "nondict"    -> "Exception"
      [] OTHER                   -> "merged"

\* _load_config (lines 116-146)
_load_config(src) ==
    IF PathGiven(src) /\ LoadOutcome(src) = "merged"
    THEN dict_update(default_config, src.doc)
    ELSE default_config

\* ------------------------------------------------------ persistence handle
\* What _init_firebase finds: whether firebase_admin could be imported
\* (FIREBASE_AVAILABLE, lines 17-24), whether firebase-credentials.json
\* exists, and whether building the client raises.
FirebaseEnvs == [available : BOOLEAN, credentials : BOOLEAN, raises : BOOLEAN]

\* _init_firebase (lines 94-114): "client" or "None"
_init_firebase(env) ==
    IF ~env.available THEN "None"
    ELSE IF ~env.credentials THEN "None"
    ELSE IF env.raises THEN "None"
    ELSE "client"

\* ------------------------------------------------------------------ state
VARIABLES
    status,          \* self.status
    sub_agents,      \* self.sub_agents: the entries in insertion order
    error_count,     \* self.metrics.error_count
    success_rate,    \* self.metrics.success_rate, in hundredths
    firebase_client, \* self.firebase_client: "client" or "None"
    config,          \* self.config
    cfgSrc,          \* what _load_config was given
    fbEnv,           \* what _init_firebase found
    pc,              \* where start() is
    idx,             \* _start_sub_agents: position of the dict iterator
    iterLen,         \* _start_sub_agents: dict size the iterator was made for
    agent_instance,  \* _start_sub_agents: the instance whose start() is awaited
    stale,           \* agent_data is no longer the registry's entry (overwritten)
    cycle,           \* number of cycles begun
    failed,          \* ids whose monitor or update failed in this cycle
    writes,          \* number of writes to the store attempted
    persisted,       \* the persistence step of this cycle has run
    cycleErr,        \* line 197 caught an exception in this cycle
    exit,            \* how start() ended
    stopAt,          \* where start() was when the first stop signal came
    started,         \* per id: what startup did with the entry now registered
    lastCall         \* the register_sub_agent call just made and its result

vars == <<status, sub_agents, error_count, success_rate, firebase_client, config,
          cfgSrc, fbEnv, pc, idx, iterLen, agent_instance, stale, cycle, failed,
          writes, persisted, cycleErr, exit, stopAt, started, lastCall>>

metricsVars == <<error_count, success_rate>>
ctorVars == <<firebase_client, config, cfgSrc, fbEnv>>
startupVars == <<idx, iterLen, agent_instance, stale>>
cycleVars == <<cycle, failed, writes, persisted, cycleErr>>

\* ----------------------------------------------------------- the registry
NoInstance == [start |-> "none", monitor |-> "none", update |-> "none"]
NoCall == [id |-> PyNone, instance |-> NoInstance, ret |-> FALSE, made |-> FALSE]
NoStop == [phase |-> "none", cycle |-> 0]

Keys(reg) == {reg[i].id : i \in 1..Len(reg)}
IndexOf(reg, id) == CHOOSE i \in 1..Len(reg) : reg[i].id = id

\* a registration that keeps what is registered under an id already
dict_set_KeepFirst(reg, id, value) ==
    IF id \in Keys(reg) THEN reg
    ELSE Append(reg, [id |-> id] @@ value)

\* self.sub_agents[agent_id] = {...} (line 157): a dict keeps insertion
\* order and an existing key keeps its place
dict_set(reg, id, value) ==
    IF id \in Keys(reg)
    THEN [reg EXCEPT ![IndexOf(reg, id)] = [id |-> id] @@ value]
    ELSE Append(reg, [id |-> id] @@ value)

\* a validation that forgets the type of the identifier
ValidId_TruthyOnly(agent_id) == Truthy(agent_id)

\* a validation that looks at the type alone and lets the empty string pass
ValidId_TypeOnly(agent_id) == agent_id.ty = "str"

\* not (not agent_id or not isinstance(agent_id, str)) (line 150)
ValidId(agent_id) == Truthy(agent_id) /\ agent_id.ty = "str"

\* the coroutine is suspended at an await, so other tasks run
AwaitStates == {"start_await", "monitor", "update", "persist", "sleep", "backoff"}
CycleStates == {"monitor", "update", "persist", "metrics", "sleep", "backoff"}
FinalStates == {"returned", "raised"}

\* the part of start() a position belongs to
Phase(p) ==
    CASE p = "init"                       -> "init"
      [] p \in {"startup", "start_await"} -> "startup"
      [] p \in CycleStates                -> "cycle"
      [] OTHER                            -> "between"

\* register_sub_agent is called before start() and, by other tasks, while
\* start() awaits an agent's start()
RegisterStates == {"init", "start_await"}
\* the instances other tasks register while start() runs
LateInstances == {i \in Instances : i.start = "ok" /\ i.monitor = "ok" /\ i.update = "ok"}

\* --------------------------------------------------------- construction
\* __init__ (lines 70-92): the fields of the new object
MasterAgent(src, env) ==
    [status          |-> "INITIALIZING",
     sub_agents      |-> <<>>,
     error_count     |-> 0,
     success_rate    |-> RATE_ONE,
     firebase_client |-> _init_firebase(env),
     config          |-> _load_config(src)]

\* what is not a field of the object: start() has not been called
NotStarted ==
    /\ idx = 0
    /\ iterLen = 0
    /\ agent_instance = NoInstance
    /\ stale = FALSE
    /\ cycle = 0
    /\ failed = {}
    /\ writes = 0
    /\ persisted = FALSE
    /\ cycleErr = FALSE
    /\ exit = "none"
    /\ stopAt = NoStop
    /\ started = [i \in ValidIds |-> "none"]
    /\ lastCall = NoCall

\* the configurations and stores the supervision loop is followed with
LoopSources ==
    {[path |-> "none", doc |-> EmptyDoc],
     [path |-> "dict", doc |-> [polling_interval |-> PyStr(2)]]}
LoopEnvs ==
    {[available |-> TRUE, credentials |-> TRUE, raises |-> FALSE],
     [available |-> TRUE, credentials |-> FALSE, raises |-> FALSE]}

Init ==
    /\ pc = "init"
    /\ \E src \in LoopSources, env \in LoopEnvs :
          LET self == MasterAgent(src, env)
          IN /\ status = self.status
             /\ sub_agents = self.sub_agents
             /\ error_count = self.error_count
             /\ success_rate = self.success_rate
             /\ firebase_client = self.firebase_client
             /\ config = self.config
             /\ cfgSrc = src
             /\ fbEnv = env
    /\ NotStarted

\* ------------------------------------------------------------ operations
\* register_sub_agent (lines 148-165), called before start() or by another
\* task while start() is suspended
register_sub_agent(agent_id, instance) ==
    /\ pc \in RegisterStates
    /\ pc # "init" => instance \in LateInstances
    /\ IF ValidId(agent_id)
       THEN /\ sub_agents' = dict_set(sub_agents, agent_id,
                                      [instance |-> instance, status |-> "READY"])
            /\ started' = [started EXCEPT ![agent_id] =
                              IF pc = "init" THEN "none" ELSE "late"]
            /\ stale' = (stale \/ (pc = "start_await" /\ idx <= Len(sub_agents)
                                   /\ sub_agents[idx].id = agent_id))
            /\ lastCall' = [id |-> agent_id, instance |-> instance, ret |-> TRUE,
                             made |-> TRUE]
       ELSE /\ lastCall' = [id |-> agent_id, instance |-> instance, ret |-> FALSE,
                             made |-> TRUE]
            /\ UNCHANGED <<sub_agents, started, stale>>
    /\ UNCHANGED <<status, metricsVars, ctorVars, pc, idx, iterLen, agent_instance,
                   cycleVars, exit, stopAt>>

Register ==
    \/ \E agent_id \in ValidIds, instance \in Instances :
            register_sub_agent(agent_id, instance)
    \/ \E agent_id \in InvalidIds :
            register_sub_agent(agent_id, CHOOSE i \in Instances : i.start = "ok" /\ i.update = "ok")

\* _handle_shutdown, the handler __init__ installs for SIGINT and SIGTERM
\* (lines 88-90): it requests the stop through self.status, the only thing
\* the loop of line 177 reads.  A handler runs between any two steps.
_handle_shutdown ==
    /\ pc \notin FinalStates
    /\ status' = "TERMINATED"
    /\ stopAt' = IF stopAt = NoStop THEN [phase |-> Phase(pc), cycle |-> cycle]
                  ELSE stopAt
    /\ lastCall' = NoCall
    /\ UNCHANGED <<sub_agents, metricsVars, ctorVars, pc, startupVars, cycleVars,
                   exit, started>>

\* start(), lines 167-174: the status is set and the iteration over
\* self.sub_agents.items() begins
Start ==
    /\ pc = "init"
    /\ status' = "RUNNING"
    /\ pc' = "startup"
    /\ idx' = 1
    /\ iterLen' = Len(sub_agents)
    /\ lastCall' = NoCall
    /\ UNCHANGED <<sub_agents, metricsVars, ctorVars, agent_instance, stale,
                   cycleVars, exit, stopAt, started>>

\* an outer handler that re-raises without recording the error
FatalError_NoStatus ==
    /\ UNCHANGED status
    /\ pc' = "raised"
    /\ exit' = "fatal"

\* `except Exception` of start() (lines 202-205)
FatalError ==
    /\ status' = "ERROR"
    /\ pc' = "raised"
    /\ exit' = "fatal"

\* one step of the for loop of _start_sub_agents (lines 209-217), up to the
\* await of line 213.  The dict iterator raises RuntimeError when the dict
\* has grown since the loop began; nothing in _start_sub_agents catches it.
StartupIter ==
    /\ pc = "startup"
    /\ lastCall' = NoCall
    /\ IF Len(sub_agents) # iterLen
       THEN /\ FatalError
            /\ UNCHANGED <<sub_agents, startupVars, started>>
       ELSE IF idx > Len(sub_agents)
       THEN /\ pc' = "loop_check"
            /\ UNCHANGED <<status, sub_agents, startupVars, exit, started>>
       ELSE IF sub_agents[idx].instance.start # "none"
       THEN /\ pc' = "start_await"
            /\ agent_instance' = sub_agents[idx].instance
            /\ stale' = FALSE
            /\ UNCHANGED <<status, sub_agents, idx, iterLen, exit, started>>
       ELSE /\ idx' = idx + 1
            /\ started' = [started EXCEPT ![sub_agents[idx].id] = "skipped"]
            /\ UNCHANGED <<status, sub_agents, pc, iterLen, agent_instance, stale, exit>>
    /\ UNCHANGED <<metricsVars, ctorVars, cycleVars, stopAt>>

\* a handler that gives up on the first agent whose start() raises
StartRaised_Abort(reg, i, isStale) == [caught |-> FALSE, reg |-> reg]

\* the except clause of lines 218-219: the failure is logged
StartRaised(reg, i, isStale) == [caught |-> TRUE, reg |-> reg]

\* a startup that marks no agent as running
StartReturned_NoStatus(reg, i, isStale) == reg

\* agent_data['status'] = AgentStatus.RUNNING (line 214); agent_data is the
\* dict the iterator yielded, which an overwrite has taken out of the registry
StartReturned(reg, i, isStale) ==
    IF isStale THEN reg ELSE [reg EXCEPT ![i].status = "RUNNING"]

\* the await of line 213 ends: agent_instance.start() returned or raised
AgentStartDone ==
    /\ pc = "start_await"
    /\ lastCall' = NoCall
    /\ LET id == sub_agents[idx].id
           res == StartRaised(sub_agents, idx, stale)
       IN IF agent_instance.start = "ok"
          THEN /\ sub_agents' = StartReturned(sub_agents, idx, stale)
               /\ started' = IF stale THEN started ELSE [started EXCEPT ![id] = "ok"]
               /\ pc' = "startup"
               /\ idx' = idx + 1
               /\ UNCHANGED <<status, exit>>
          ELSE IF res.caught
          THEN /\ sub_agents' = res.reg
               /\ started' = IF stale THEN started ELSE [started EXCEPT ![id] = "raised"]
               /\ pc' = "startup"
               /\ idx' = idx + 1
               /\ UNCHANGED <<status, exit>>
          ELSE /\ FatalError
               /\ UNCHANGED <<sub_agents, started, idx>>
    /\ agent_instance' = NoInstance
    /\ stale' = FALSE
    /\ UNCHANGED <<metricsVars, ctorVars, iterLen, cycleVars, stopAt>>

\* the task is cancelled while start() awaits an agent's start():
\* CancelledError is a BaseException and no Exception (Python 3.8 and later),
\* so neither line 218 nor line 202 catches it
StartupCancelled ==
    /\ pc = "start_await"
    /\ pc' = "raised"
    /\ exit' = "cancelled"
    /\ lastCall' = NoCall
    /\ UNCHANGED <<status, sub_agents, metricsVars, ctorVars, startupVars, cycleVars,
                   stopAt, started>>

\* a loop that never looks at the status
LoopContinues_Always(st) == TRUE

\* self.status == AgentStatus.RUNNING (line 177)
LoopContinues(st) == st = "RUNNING"

\* a loop whose cycle begins at the update step
LoopCheck_SkipMonitor ==
    /\ pc = "loop_check"
    /\ lastCall' = NoCall
    /\ IF LoopContinues(status)
       THEN /\ cycle < MaxCycles
            /\ cycle' = cycle + 1
            /\ failed' = {}
            /\ persisted' = FALSE
            /\ cycleErr' = FALSE
            /\ pc' = "update"
            /\ UNCHANGED exit
       ELSE /\ pc' = "returned"
            /\ exit' = "stopped"
            /\ UNCHANGED <<cycle, failed, persisted, cycleErr>>
    /\ UNCHANGED <<status, sub_agents, metricsVars, ctorVars, startupVars, writes,
                   stopAt, started>>

\* the while of line 177: another cycle begins or start() returns
LoopCheck ==
    /\ pc = "loop_check"
    /\ lastCall' = NoCall
    /\ IF LoopContinues(status)
       THEN /\ cycle < MaxCycles
            /\ cycle' = cycle + 1
            /\ failed' = {}
            /\ persisted' = FALSE
            /\ cycleErr' = FALSE
            /\ pc' = "monitor"
            /\ UNCHANGED exit
       ELSE /\ pc' = "returned"
            /\ exit' = "stopped"
            /\ UNCHANGED <<cycle, failed, persisted, cycleErr>>
    /\ UNCHANGED <<status, sub_agents, metricsVars, ctorVars, startupVars, writes,
                   stopAt, started>>

\* a handler that logs the exception and does not count it
CycleExcept_NoCount ==
    /\ UNCHANGED error_count
    /\ cycleErr' = TRUE
    /\ pc' = "backoff"

\* a handler that counts the exception twice
CycleExcept_CountTwice ==
    /\ error_count' = error_count + 2
    /\ cycleErr' = TRUE
    /\ pc' = "backoff"

\* a handler that goes back to the loop without the backoff sleep
CycleExcept_NoBackoff ==
    /\ error_count' = error_count + 1
    /\ cycleErr' = TRUE
    /\ pc' = "loop_check"

\* a handler after which the cycle goes on with its metrics step
CycleExcept_SkipToMetrics ==
    /\ error_count' = error_count + 1
    /\ cycleErr' = TRUE
    /\ pc' = "metrics"

\* `except Exception` of the cycle (lines 197-200), up to the backoff sleep
CycleExcept ==
    /\ error_count' = error_count + 1
    /\ cycleErr' = TRUE
    /\ pc' = "backoff"

\* ids of the entries whose instance raises in the operation op
Raising(reg, op) == {reg[i].id : i \in {j \in 1..Len(reg) : reg[j].instance[op] = "raise"}}

\* a failure boundary that only logs: the failure is not counted
AgentStep_LogOnly(reg, op) ==
    [reg |-> reg, errors |-> 0, failed |-> Raising(reg, op), escaped |-> FALSE]

\* The monitor and the update step call the operation on every agent that
\* exposes it, each call under its own failure boundary: a failure sets that
\* agent's status to ERROR and counts one error; no other entry is touched.
AgentStep(reg, op) ==
    [reg     |-> [i \in 1..Len(reg) |->
                    IF reg[i].instance[op] = "raise"
                    THEN [reg[i] EXCEPT !.status = "ERROR"]
                    ELSE reg[i]],
     errors  |-> Cardinality(Raising(reg, op)),
     failed  |-> Raising(reg, op),
     escaped |-> FALSE]

\* a step of the cycle that drives the agents: _monitor_sub_agents (line 180)
\* at "monitor", _update_strategies (line 183) at "update"
DriveAgents(at, op, next) ==
    /\ pc = at
    /\ lastCall' = NoCall
    /\ LET r == AgentStep(sub_agents, op)
       IN IF r.escaped
          THEN /\ CycleExcept
               /\ UNCHANGED <<sub_agents, failed>>
          ELSE /\ sub_agents' = r.reg
               /\ error_count' = error_count + r.errors
               /\ failed' = failed \cup r.failed
               /\ pc' = next
               /\ UNCHANGED cycleErr
    /\ UNCHANGED <<status, success_rate, ctorVars, startupVars, cycle, writes,
                   persisted, exit, stopAt, started>>

_monitor_sub_agents == DriveAgents("monitor", "monitor", "update")
_update_strategies == DriveAgents("update", "update", "persist")

\* a failure of the step itself, which is no agent's failure, escapes to the
\* cycle boundary (lines 197-200); a step with no agent to drive has nothing
\* that fails
StepFailure ==
    /\ pc \in {"monitor", "update"}
    /\ Len(sub_agents) > 0
    /\ CycleExcept
    /\ lastCall' = NoCall
    /\ UNCHANGED <<status, sub_agents, success_rate, ctorVars, startupVars, cycle,
                   failed, writes, persisted, exit, stopAt, started>>

\* a persistence step that writes whether or not there is a handle
WritesAttempted_Always(client) == 1

\* the persistence step checks the handle and skips the write without one
WritesAttempted(client) == IF client = "None" THEN 0 ELSE 1

\* _save_state (line 186): best effort, a failed write is logged
_save_state ==
    /\ pc = "persist"
    /\ writes' = writes + WritesAttempted(firebase_client)
    /\ persisted' = TRUE
    /\ pc' = "metrics"
    /\ lastCall' = NoCall
    /\ UNCHANGED <<status, sub_agents, metricsVars, ctorVars, startupVars, cycle,
                   failed, cycleErr, exit, stopAt, started>>

\* a ratio that divides whatever the agent count is
SuccessRate_Divide(ok, total) ==
    IF total = 0 THEN [raises |-> TRUE, value |-> 0]
    ELSE [raises |-> FALSE, value |-> (ok * RATE_ONE) \div total]

\* agents that completed monitor and update without error over the agent
\* count; with no agent the rate is 1.0
SuccessRate(ok, total) ==
    IF total = 0 THEN [raises |-> FALSE, value |-> RATE_ONE]
    ELSE [raises |-> FALSE, value |-> (ok * RATE_ONE) \div total]

\* _update_metrics (line 189)
_update_metrics ==
    /\ pc = "metrics"
    /\ lastCall' = NoCall
    /\ LET total == Len(sub_agents)
           r == SuccessRate(total - Cardinality(failed \cap Keys(sub_agents)), total)
       IN IF r.raises
          THEN /\ CycleExcept
               /\ UNCHANGED success_rate
          ELSE /\ success_rate' = r.value
               /\ pc' = "sleep"
               /\ UNCHANGED <<error_count, cycleErr>>
    /\ UNCHANGED <<status, sub_agents, ctorVars, startupVars, cycle, failed, writes,
                   persisted, exit, stopAt, started>>

\* self.config.get("polling_interval", 60) (line 192)
PollingInterval(cfg) ==
    IF "polling_interval" \in DOMAIN cfg THEN cfg["polling_interval"]
    ELSE PyInt(POLLING_FALLBACK)

\* asyncio.sleep compares its delay with 0: a delay that is no number
\* raises TypeError
IsNumber(x) == x.ty \in {"int", "float"}

\* a polling sleep that ends start() as soon as a stop has been requested
Sleep_StopAware ==
    /\ pc = "sleep"
    /\ lastCall' = NoCall
    /\ IF status # "RUNNING"
       THEN /\ pc' = "returned"
            /\ exit' = "stopped"
            /\ UNCHANGED <<error_count, cycleErr>>
       ELSE /\ pc' = "loop_check"
            /\ UNCHANGED <<error_count, cycleErr, exit>>
    /\ UNCHANGED <<status, sub_agents, success_rate, ctorVars, startupVars, cycle,
                   failed, writes, persisted, stopAt, started>>

\* await asyncio.sleep(polling_interval) (line 192) ends
Sleep ==
    /\ pc = "sleep"
    /\ lastCall' = NoCall
    /\ IF IsNumber(PollingInterval(config))
       THEN /\ pc' = "loop_check"
            /\ UNCHANGED <<error_count, cycleErr>>
       ELSE CycleExcept
    /\ UNCHANGED <<status, sub_agents, success_rate, ctorVars, startupVars, cycle,
                   failed, writes, persisted, exit, stopAt, started>>

\* await asyncio.sleep(5) (line 200) ends
Backoff ==
    /\ pc = "backoff"
    /\ pc' = "loop_check"
    /\ lastCall' = NoCall
    /\ UNCHANGED <<status, sub_agents, metricsVars, ctorVars, startupVars, cycleVars,
                   exit, stopAt, started>>

\* the task is cancelled at an await of the cycle: `except
\* asyncio.CancelledError` breaks out of the loop (lines 194-196)
CycleCancelled ==
    /\ pc \in {"monitor", "update", "persist", "sleep"}
    /\ pc' = "returned"
    /\ exit' = "break"
    /\ lastCall' = NoCall
    /\ UNCHANGED <<status, sub_agents, metricsVars, ctorVars, startupVars, cycleVars,
                   stopAt, started>>

\* the task is cancelled in the backoff sleep, inside the handler of line
\* 197: CancelledError leaves start() and line 202 does not catch it
BackoffCancelled ==
    /\ pc = "backoff"
    /\ pc' = "raised"
    /\ exit' = "cancelled"
    /\ lastCall' = NoCall
    /\ UNCHANGED <<status, sub_agents, metricsVars, ctorVars, startupVars, cycleVars,
                   stopAt, started>>

\* -------------------------------------------------- the constructor alone
\* before __init__ runs there is no object: only what it will be given
InitConfig ==
    /\ pc = "construct"
    /\ cfgSrc \in ConfigSources
    /\ fbEnv \in FirebaseEnvs
    /\ status = "INITIALIZING"
    /\ sub_agents = <<>>
    /\ error_count = 0
    /\ success_rate = RATE_ONE
    /\ firebase_client = "None"
    /\ config = EmptyDoc
    /\ NotStarted

\* __init__ (lines 70-92)
__init__ ==
    /\ pc = "construct"
    /\ LET self == MasterAgent(cfgSrc, fbEnv)
       IN /\ status' = self.status
          /\ sub_agents' = self.sub_agents
          /\ error_count' = self.error_count
          /\ success_rate' = self.success_rate
          /\ firebase_client' = self.firebase_client
          /\ config' = self.config
    /\ pc' = "init"
    /\ UNCHANGED <<cfgSrc, fbEnv, startupVars, cycleVars, exit, stopAt, started, lastCall>>

SpecConfig == InitConfig /\ [][__init__]_vars

Next ==
    \/ Register
    \/ _handle_shutdown
    \/ Start
    \/ StartupIter
    \/ AgentStartDone
    \/ StartupCancelled
    \/ LoopCheck
    \/ _monitor_sub_agents
    \/ _update_strategies
    \/ StepFailure
    \/ _save_state
    \/ _update_metrics
    \/ Sleep
    \/ Backoff
    \/ CycleCancelled
    \/ BackoffCancelled

Spec == Init /\ [][Next]_vars

\* ------------------------------------------------- the polling intervals
\* configuration documents that differ in the polling interval alone: none
\* given (the default of line 119), 3 seconds, 0 seconds, and a string
PollingSources ==
    {[path |-> "none", doc |-> EmptyDoc],
     [path |-> "dict", doc |-> [polling_interval |-> PyInt(3)]],
     [path |-> "dict", doc |-> [polling_interval |-> PyInt(0)]],
     [path |-> "dict", doc |-> [polling_interval |-> PyStr(2)]]}

\* the object after __init__ with one of these documents and a store
InitPolling ==
    /\ pc = "init"
    /\ \E src \in PollingSources :
          LET env == [available |-> TRUE, credentials |-> TRUE, raises |-> FALSE]
              self == MasterAgent(src, env)
          IN /\ status = self.status
             /\ sub_agents = self.sub_agents
             /\ error_count = self.error_count
             /\ success_rate = self.success_rate
             /\ firebase_client = self.firebase_client
             /\ config = self.config
             /\ cfgSrc = src
             /\ fbEnv = env
    /\ NotStarted

SpecPolling == InitPolling /\ [][Next]_vars

\* ================================================================ claims
\* what the claims say of a register_sub_agent call, told from its argument
IsNonEmptyString(x) == x.ty = "str" /\ x.v # 0
EntryOf(id) == sub_agents[IndexOf(sub_agents, id)]
StartupDone == pc = "loop_check" /\ cycle = 0

\* C6: the registry holds one entry per distinct id; right after a call with
\* a valid id the call has returned true and the entry of that id holds the
\* reference just passed and the status READY; no other step removes an entry
\* or changes the reference an entry holds, so each entry holds the reference
\* of the most recent call for its id.
C6_RegistryLastWins ==
    /\ [](/\ \A i, j \in 1..Len(sub_agents) :
                sub_agents[i].id = sub_agents[j].id => i = j
          /\ (lastCall.made /\ IsNonEmptyString(lastCall.id)) =>
                /\ lastCall.ret = TRUE
                /\ lastCall.id \in Keys(sub_agents)
                /\ EntryOf(lastCall.id).instance = lastCall.instance
                /\ EntryOf(lastCall.id).status = "READY")
    /\ [][\A i \in 1..Len(sub_agents) :
            /\ Len(sub_agents') >= i
            /\ sub_agents'[i].id = sub_agents[i].id
            /\ ~(lastCall'.made /\ lastCall'.id = sub_agents[i].id)
                  => sub_agents'[i].instance = sub_agents[i].instance]_vars

\* C6 witness: a valid id was registered again, over its earlier entry, which
\* kept its place before a later one
C6_Witness ==
    /\ lastCall.made
    /\ lastCall.ret
    /\ Len(sub_agents) = 2
    /\ sub_agents[1].id = lastCall.id
    /\ sub_agents[1].instance.start = "raise"

\* C7: a call with an empty or non-string identifier returns false and
\* leaves the registry as it was.
C7_InvalidIdRejected ==
    [][(lastCall'.made /\ ~IsNonEmptyString(lastCall'.id)) =>
            /\ lastCall'.ret = FALSE
            /\ sub_agents' = sub_agents]_vars

\* C7 witness: a call with an invalid identifier was made on a registry
\* that holds entries
C7_Witness ==
    /\ lastCall.made
    /\ ~IsNonEmptyString(lastCall.id)
    /\ lastCall.id.ty = "int"
    /\ lastCall.id.v # 0
    /\ Len(sub_agents) > 0

\* C10: for a document that is a mapping, each recognized key holds the
\* loaded value when the document has it and its default when not; for a
\* missing file or a malformed document the result is exactly the defaults
\* (polling_interval 60, max_concurrent_strategies 10, risk_tolerance 0.02,
\* markets [crypto], logging_level INFO).
C10_ConfigMerge ==
    pc = "init" =>
        /\ cfgSrc.path = "dict" =>
              \A k \in RecognizedKeys :
                  config[k] = IF k \in DOMAIN cfgSrc.doc THEN cfgSrc.doc[k]
                              ELSE default_config[k]
        /\ cfgSrc.path \in {"missing", "unreadable", "badjson", "nondict"} =>
              /\ DOMAIN config = RecognizedKeys
              /\ config["polling_interval"] = PyInt(60)
              /\ config["max_concurrent_strategies"] = PyInt(10)
              /\ config["risk_tolerance"] = PyFloat(2)
              /\ config["markets"] = PyList(1)
              /\ config["logging_level"] = PyStr(1)

\* C10 witness: a loaded mapping that sets some recognized keys and leaves
\* others out
C10_Witness ==
    /\ pc = "init"
    /\ cfgSrc.path = "dict"
    /\ "polling_interval" \in DOMAIN cfgSrc.doc
    /\ "risk_tolerance" \in DOMAIN cfgSrc.doc
    /\ "markets" \notin DOMAIN cfgSrc.doc
    /\ config["polling_interval"] = PyInt(3)

\* C3: a start() that raises does not abort startup.  When startup ends and
\* the loop condition is reached, start() has been invoked on every entry
\* that exposes it, whatever subset of them raised; the step that handles a
\* raising start() goes on to the next entry; and start() ends with the
\* fatal handler during startup only when the registry has grown under the
\* iteration, never because an agent's start() raised.
C3_StartupNotAborted ==
    /\ [](/\ StartupDone =>
                \A i \in 1..Len(sub_agents) :
                    (sub_agents[i].instance.start # "none"
                       /\ started[sub_agents[i].id] # "late")
                    => started[sub_agents[i].id] \in {"ok", "raised"}
          /\ (exit = "fatal" /\ cycle = 0) => Len(sub_agents) > iterLen)
    /\ [][(pc = "start_await" /\ agent_instance.start = "raise"
             /\ pc' # "start_await" /\ exit' # "cancelled")
          => (pc' = "startup" /\ idx' = idx + 1)]_vars

\* C3 witness: startup is over, the first agent's start() raised and the
\* second agent's start() was still invoked
C3_Witness ==
    /\ StartupDone
    /\ Len(sub_agents) = 2
    /\ started[sub_agents[1].id] = "raised"
    /\ started[sub_agents[2].id] = "ok"
    /\ status = "RUNNING"

\* C4: after startup, every agent whose start() call raised has status ERROR.
C4_StartFailureSetsError ==
    StartupDone =>
        \A i \in 1..Len(sub_agents) :
            started[sub_agents[i].id] = "raised" => sub_agents[i].status = "ERROR"

\* C5: after startup, every agent that exposes start() and whose start()
\* returned has status RUNNING and every agent that exposes no start() has
\* status READY; with agents of these two kinds only, start() does not end
\* with an exception during startup unless the task is cancelled or the
\* registry grows under the iteration.
C5_StartupStatuses ==
    /\ StartupDone =>
          \A i \in 1..Len(sub_agents) :
              /\ started[sub_agents[i].id] = "ok" => sub_agents[i].status = "RUNNING"
              /\ sub_agents[i].instance.start = "none" => sub_agents[i].status = "READY"
    /\ (pc = "raised" /\ cycle = 0
          /\ \A i \in 1..Len(sub_agents) : sub_agents[i].instance.start # "raise")
       => (exit = "cancelled" \/ Len(sub_agents) > iterLen)

\* C5 witness: startup is over with one agent started and one skipped
C5_Witness ==
    /\ StartupDone
    /\ Len(sub_agents) = 2
    /\ sub_agents[1].instance.start = "none"
    /\ started[sub_agents[1].id] = "skipped"
    /\ sub_agents[1].status = "READY"
    /\ started[sub_agents[2].id] = "ok"
    /\ sub_agents[2].status = "RUNNING"

\* what a cycle has driven: an agent whose update() raises is registered
HasRaisingUpdate == \E i \in 1..Len(sub_agents) : sub_agents[i].instance.update = "raise"
\* the step of a cycle that follows a step that completed
StepAfter(p) ==
    CASE p = "monitor" -> "update"
      [] p = "update"  -> "persist"
      [] p = "persist" -> "metrics"
      [] p = "metrics" -> "sleep"
      [] OTHER         -> "loop_check"
\* the cycles whose update step is over, one way or the other
CyclesPastUpdate ==
    IF pc \in {"monitor", "update"} \/ exit = "break" THEN cycle - 1 ELSE cycle

\* C1: with a registered agent whose update() raises in every cycle, after
\* N cycles error_count is at least N; as long as no stop signal has come the
\* master status is RUNNING; and no step of a cycle changes the entry of an
\* agent whose own monitor() and update() do not raise.
C1_UpdateFailureIsolated ==
    /\ []((HasRaisingUpdate /\ Phase(pc) \in {"cycle", "between"} /\ cycle >= 1) =>
            /\ error_count >= CyclesPastUpdate
            /\ (stopAt = NoStop /\ pc \notin FinalStates) => status = "RUNNING")
    /\ [][(HasRaisingUpdate /\ pc \in CycleStates) =>
            \A i \in 1..Len(sub_agents) :
                (sub_agents[i].instance.update # "raise"
                   /\ sub_agents[i].instance.monitor # "raise")
                => (Len(sub_agents') >= i /\ sub_agents'[i] = sub_agents[i])]_vars

\* C1 witness: two cycles are over, the update of one agent raised in each,
\* the other agent is as startup left it
C1_Witness ==
    /\ pc = "loop_check"
    /\ cycle = 2
    /\ ~cycleErr
    /\ Len(sub_agents) = 2
    /\ sub_agents[1].instance.update = "raise"
    /\ sub_agents[1].status = "ERROR"
    /\ sub_agents[2].instance.update = "ok"
    /\ sub_agents[2].status = "RUNNING"
    /\ error_count = 2
    /\ status = "RUNNING"

C8_NoHandleNoWrite ==
    /\ [](firebase_client = "None" => writes = 0)
    /\ [][(firebase_client = "None" /\ pc \in {"persist", "metrics"}
             /\ pc' # pc /\ exit' # "break")
          => (pc' = StepAfter(pc) /\ error_count' = error_count /\ ~cycleErr')]_vars

\* C8 witness: a cycle ran through persistence and metrics with no handle
C8_Witness ==
    /\ firebase_client = "None"
    /\ pc = "sleep"
    /\ persisted
    /\ cycle = 2
    /\ Len(sub_agents) > 0
    /\ writes = 0

\* C9: with no registered agent, every step of a cycle goes on to the next
\* one without an exception reaching the cycle boundary, and when the
\* metrics step is over success_rate is exactly 1.0.
C9_EmptyRegistryCycle ==
    /\ []((Len(sub_agents) = 0 /\ pc = "sleep") =>
              (success_rate = RATE_ONE /\ persisted /\ ~cycleErr))
    /\ [][(Len(sub_agents) = 0 /\ pc \in {"monitor", "update", "persist", "metrics"}
             /\ pc' # pc /\ exit' # "break")
          => (pc' = StepAfter(pc) /\ error_count' = error_count /\ ~cycleErr')]_vars

\* C9 witness: a whole cycle is over with an empty registry
C9_Witness ==
    /\ Len(sub_agents) = 0
    /\ pc = "sleep"
    /\ cycle = 1
    /\ persisted
    /\ success_rate = RATE_ONE
    /\ error_count = 0

\* the agents whose start() startup has seen raise
StartFailures == {id \in ValidIds : started[id] = "raised"}

\* C11: when startup is over, error_count has been incremented by exactly one
\* for each agent whose start() raised.
C11_StartFailureCounted ==
    StartupDone => error_count = Cardinality(StartFailures)

\* C12: the loaded configuration has a polling interval that is a number
\* greater than 0, whatever document _load_config accepted.
C12_PollingIntervalPositive ==
    pc = "init" =>
        /\ IsNumber(PollingInterval(config))
        /\ PollingInterval(config).v > 0

\* the steps of a cycle that call a method of the master (lines 180-189)
CycleSteps == {"monitor", "update", "persist", "metrics"}

\* C13: a cycle begins only at the check of line 177 and with the monitor
\* step; each step is entered only from the step before it in the order
\* monitor, update, persist, metrics, sleep, when that step is over; and the
\* check that begins the next cycle is reached only from the sleep or the
\* backoff that ends the cycle before, so that no two cycles overlap.
C13_StepsInOrder ==
    /\ [][pc' # pc =>
            /\ (pc' = "monitor" => pc = "loop_check" /\ cycle' = cycle + 1)
            /\ (pc' \in {"update", "persist", "metrics", "sleep"} =>
                    pc \in CycleSteps /\ pc' = StepAfter(pc) /\ cycle' = cycle)
            /\ ((pc' = "loop_check" /\ cycle >= 1) => pc \in {"sleep", "backoff"})
            /\ (pc' = "backoff" => pc \in CycleSteps \cup {"sleep"})]_vars
    /\ [][cycle' # cycle => pc = "loop_check" /\ pc' = "monitor"]_vars
    /\ [](pc \in {"metrics", "sleep"} => persisted)

\* C13 witness: the second cycle went through all its steps to the sleep,
\* with two agents, a handle and one write in each cycle
C13_Witness ==
    /\ pc = "sleep"
    /\ cycle = 2
    /\ Len(sub_agents) = 2
    /\ firebase_client = "client"
    /\ writes = 2
    /\ persisted
    /\ ~cycleErr

\* C14: an exception that escapes a step of a cycle is caught at the cycle
\* boundary: error_count grows by exactly one, the master status and the
\* registry are left as they are, start() neither returns nor raises and the
\* backoff sleep begins; when the backoff sleep is over the loop is at its
\* check again, with the status not changed by the handler.
C14_CycleExceptionCaught ==
    /\ [][(cycleErr' /\ ~cycleErr) =>
            /\ pc \in CycleSteps \cup {"sleep"}
            /\ error_count' = error_count + 1
            /\ status' = status
            /\ sub_agents' = sub_agents
            /\ pc' = "backoff"
            /\ exit' = "none"]_vars
    /\ [][(pc = "backoff" /\ pc' # pc /\ exit' # "cancelled") =>
            (pc' = "loop_check" /\ status' = status /\ error_count' = error_count)]_vars
    /\ []((pc = "backoff" /\ stopAt = NoStop) => (status = "RUNNING" /\ cycleErr))

\* C14 witness: the step itself failed in the first cycle, the exception was
\* counted once, the backoff is over and the second cycle has begun
C14_Witness ==
    /\ pc = "monitor"
    /\ cycle = 2
    /\ error_count = 1
    /\ status = "RUNNING"
    /\ exit = "none"
    /\ \A i \in 1..Len(sub_agents) : sub_agents[i].status # "ERROR"

\* the loop is back at its check after one sleep: the polling sleep of a
\* cycle in which nothing was caught, or the backoff sleep after the handler
OneSuspendPerCycle ==
    /\ [][pc' # pc =>
            /\ (pc' = "monitor" => pc = "loop_check")
            /\ ((pc' = "loop_check" /\ cycle >= 1) =>
                    \/ pc = "sleep" /\ ~cycleErr'
                    \/ pc = "backoff" /\ cycleErr')
            /\ (pc = "sleep" => pc' \in {"loop_check", "backoff", "returned"})
            /\ (pc = "backoff" => pc' \in {"loop_check", "raised"})]_vars
    /\ [][(cycleErr' /\ ~cycleErr) => pc' = "backoff"]_vars

\* C15 as stated: one sleep between two cycles, and the backoff pause is
\* shorter than the polling interval of the configuration
C15_NoBusyLoop_AsStated ==
    /\ OneSuspendPerCycle
    /\ []((pc = "backoff" /\ IsNumber(PollingInterval(config))) =>
              BACKOFF_SECONDS < PollingInterval(config).v)

\* C15: between the starts of two consecutive cycles exactly one
\* asyncio.sleep is awaited to its end, the polling sleep of line 192 after a
\* cycle in which nothing was caught or the backoff sleep of line 200 after
\* the handler; the backoff pause is shorter than the default polling
\* interval, whatever interval is configured.
C15_NoBusyLoop ==
    /\ OneSuspendPerCycle
    /\ [](pc = "backoff" => BACKOFF_SECONDS < default_config["polling_interval"].v)

\* C15 witness: with a polling interval of 3 seconds the first cycle ended
\* with the polling sleep and the second with the backoff sleep
C15_Witness ==
    /\ PollingInterval(config) = PyInt(3)
    /\ pc = "loop_check"
    /\ cycle = 2
    /\ cycleErr
    /\ error_count = 1

\* C16 as stated: the status is ERROR only after an exception escaped to the
\* outer handler, and whatever propagates out of start(), exception or
\* cancellation, finds the status set to ERROR
C16_ErrorIffPropagates_AsStated ==
    /\ status = "ERROR" => exit = "fatal"
    /\ pc = "raised" => status = "ERROR"

\* C16: the status becomes ERROR only in the outer handler of start(),
\* which re-raises; an exception that propagates out of start() has set the
\* status to ERROR first; a cancellation that propagates out of start()
\* leaves the status as it was, and that is never ERROR.
C16_ErrorIffPropagates ==
    /\ [](status = "ERROR" <=> exit = "fatal")
    /\ [](pc = "raised" <=> exit \in {"fatal", "cancelled"})
    /\ [][status' = "ERROR" => pc' = "raised" /\ pc # "raised"]_vars
    /\ [][(exit' = "cancelled" /\ exit # "cancelled") =>
            (status' = status /\ pc \in {"start_await", "backoff"})]_vars

\* C16 witness: the registry changed size while startup iterated over it,
\* the RuntimeError reached the outer handler and start() raised
C16_Witness ==
    /\ pc = "raised"
    /\ exit = "fatal"
    /\ status = "ERROR"
    /\ cycle = 0
    /\ Len(sub_agents) > iterLen

\* the awaits during which an agent call or a step of a cycle is in flight
InFlight == {"start_await", "monitor", "update", "persist"}

C18_TerminatedIsFinal ==
    [][/\ (status = "TERMINATED") => (status' = "TERMINATED")
       /\ \A i \in 1..Len(sub_agents) :
             (sub_agents[i].status = "TERMINATED") =>
                 /\ i <= Len(sub_agents')
                 /\ sub_agents'[i].status = "TERMINATED"]_vars

\* C19: the metrics step and the polling sleep of a cycle are reached only
\* when nothing was caught in that cycle and its persistence step is over;
\* a cycle in which a step raised goes from that step to the backoff sleep
\* and from there to the loop check, with no later step of the cycle run and
\* success_rate left as it was.
C19_RaisingCycleSkipsRest ==
    /\ [](pc \in {"metrics", "sleep"} => (~cycleErr /\ persisted))
    /\ [](cycleErr => pc \in {"backoff", "loop_check"} \cup FinalStates)
    /\ [][(cycleErr' /\ ~cycleErr) =>
            (pc' = "backoff" /\ success_rate' = success_rate
               /\ writes' = writes /\ persisted' = persisted)]_vars
    /\ [][(cycleErr /\ cycle' = cycle) =>
            (success_rate' = success_rate /\ writes' = writes
               /\ persisted' = persisted)]_vars

\* C19 witness: with a store, a step of the first cycle raised before the
\* persistence step; the cycle is in its backoff sleep with nothing written
C19_Witness ==
    /\ pc = "backoff"
    /\ cycle = 1
    /\ cycleErr
    /\ ~persisted
    /\ firebase_client = "client"
    /\ writes = 0
    /\ success_rate = RATE_ONE

\* C20: every key of the registry is a non-empty string, and no step removes
\* a key: the set of registered ids only grows.
C20_RegistryKeys ==
    /\ [](\A i \in 1..Len(sub_agents) : IsNonEmptyString(sub_agents[i].id))
    /\ [][/\ Keys(sub_agents) \subseteq Keys(sub_agents')
          /\ Len(sub_agents') >= Len(sub_agents)]_vars

\* C20 witness: during startup, with two ids registered, a call with the
\* empty string has just been made
C20_Witness ==
    /\ pc = "start_await"
    /\ Len(sub_agents) = 2
    /\ lastCall.made
    /\ lastCall.id = PyStr(0)
    /\ Keys(sub_agents) = ValidIds

====
